---- MODULE Spec2Model ----
(***************************************************************************)
(* Wayback Machine adapter: analyzeDomainForSpam / analyzeDomainsForSpam   *)
(* (src/src/lib/adapters/wayback/index.js) and the HTML spam scorer        *)
(* (src/unnamed/part_000, imported as ./htmlParser.js).                    *)
(*                                                                         *)
(* Strings the code inspects character by character (domains, texts, stop  *)
(* words) are sequences of one-character strings.  Strings the code only   *)
(* passes around (timestamps, error messages) are TLA+ strings.            *)
(* Scores and percentages are kept in hundredths (50.00 is 5000), which is *)
(* exactly what Math.round(x * 100) / 100 keeps of a number.               *)
(***************************************************************************)
EXTENDS Integers, Sequences, FiniteSets, TLC

(***************************************************************************)
(* Bounds of the model.                                                    *)
(***************************************************************************)
MaxDomains == 2          \* domains in a batch
BatchMaxSnapshots == 2   \* maxSnapshots a batch is called with
DomainMaxSnapshots == 3  \* maxSnapshots a single analysis is called with
MaxLongListing == 8      \* length of the listings whose last snapshot SpecLast awaits
MaxTextLen == 3          \* length of the texts given to the scorer on its own
MaxListLen == 2          \* length of the stop-word lists given to the scorer on its own

(***************************************************************************)
(* Character-level string helpers.                                         *)
(***************************************************************************)
IsSpace(c) == c = " "

\* String.prototype.toLowerCase on one character of the model's alphabet.
LowerChar(c) == IF c = "A" THEN "a" ELSE IF c = "B" THEN "b" ELSE c

toLowerCase(s) == [k \in 1..Len(s) |-> LowerChar(s[k])]

RECURSIVE TrimStart(_)
TrimStart(s) == IF s # <<>> /\ IsSpace(Head(s)) THEN TrimStart(Tail(s)) ELSE s

RECURSIVE TrimEnd(_)
TrimEnd(s) ==
  IF s # <<>> /\ IsSpace(s[Len(s)]) THEN TrimEnd(SubSeq(s, 1, Len(s) - 1)) ELSE s

\* String.prototype.trim
trim(s) == TrimEnd(TrimStart(s))

\* text.replace(/\s+/g, ' ')
RECURSIVE CollapseSpaces(_)
CollapseSpaces(s) ==
  IF Len(s) < 2 THEN s
  ELSE IF IsSpace(s[1]) /\ IsSpace(s[2]) THEN CollapseSpaces(Tail(s))
  ELSE <<s[1]>> \o CollapseSpaces(Tail(s))

\* w occurs in s at position p (1-based), compared case-insensitively
MatchesAt(s, w, p) ==
  /\ p + Len(w) - 1 <= Len(s)
  /\ \A k \in 1..Len(w) : LowerChar(s[p + k - 1]) = LowerChar(w[k])

\* String.prototype.includes on the lowercased text
includes(s, w) == \E p \in 1..(Len(s) + 1) : MatchesAt(s, w, p)

\* A character that makes `new RegExp(word)` throw a SyntaxError
\* (an unterminated group).
IsBadPattern(w) == \E k \in 1..Len(w) : w[k] = "("

\* text.match(new RegExp(word, 'gi')).length for a word of literal characters:
\* the matches are found left to right and do not overlap.
RECURSIVE CountMatchesFrom(_, _, _)
CountMatchesFrom(s, w, p) ==
  IF p + Len(w) - 1 > Len(s) THEN 0
  ELSE IF MatchesAt(s, w, p) THEN 1 + CountMatchesFrom(s, w, p + Len(w))
  ELSE CountMatchesFrom(s, w, p + 1)

\* text.split(/\s+/).length: one more than the number of whitespace runs
\* (leading and trailing runs yield empty tokens, which are counted).
RECURSIVE CountSpaceRuns(_)
CountSpaceRuns(s) ==
  IF s = <<>> THEN 0
  ELSE IF IsSpace(s[1]) /\ (Len(s) = 1 \/ ~IsSpace(s[2])) THEN 1 + CountSpaceRuns(Tail(s))
  ELSE CountSpaceRuns(Tail(s))

SplitLength(s) == 1 + CountSpaceRuns(s)

\* Math.round(num / den * 100) for num >= 0, den > 0: the value in hundredths.
RoundHundredths(num, den) == (2 * 100 * num + den) \div (2 * den)

Min(a, b) == IF a <= b THEN a ELSE b

RECURSIVE SumCounts(_)
SumCounts(found) == IF found = <<>> THEN 0 ELSE Head(found).count + SumCounts(Tail(found))

(***************************************************************************)
(* checkStopWords.  The result is [raised |-> TRUE] when the RegExp        *)
(* constructor throws, else the returned object (score in hundredths).     *)
(***************************************************************************)
HasWord(found, w) == \E k \in 1..Len(found) : found[k].word = w

\* the body of stopWords.forEach for one word
RECURSIVE ForEachStopWord(_, _, _)
ForEachStopWord(text, words, found) ==
  IF words = <<>> THEN [raised |-> FALSE, found |-> found]
  ELSE LET wordLower == trim(toLowerCase(Head(words)))
       IN IF wordLower # <<>> /\ includes(text, wordLower)
          THEN IF IsBadPattern(wordLower)
               THEN [raised |-> TRUE, found |-> found]
               ELSE LET count == CountMatchesFrom(text, wordLower, 1)
                    IN ForEachStopWord(text, Tail(words),
                         IF HasWord(found, wordLower) THEN found
                         ELSE Append(found, [word |-> wordLower, count |-> count]))
          ELSE ForEachStopWord(text, Tail(words), found)

\* (mutant) the score counts the stop words of the list, found or not
checkStopWordsListed(text, stopWords) ==
  IF text = <<>> \/ stopWords = <<>>
  THEN [raised |-> FALSE, found |-> <<>>, count |-> 0, score |-> 0]
  ELSE LET r == ForEachStopWord(text, stopWords, <<>>)
           totalWords == SplitLength(text)
           foundWordsCount == Len(stopWords)
       IN IF r.raised THEN [raised |-> TRUE, found |-> <<>>, count |-> 0, score |-> 0]
          ELSE [raised |-> FALSE, found |-> r.found, count |-> Len(r.found),
                score |-> IF totalWords > 0
                          THEN Min(100 * 100, RoundHundredths(100 * foundWordsCount, totalWords))
                          ELSE 0]

checkStopWords(text, stopWords) ==
  IF text = <<>> \/ stopWords = <<>>
  THEN [raised |-> FALSE, found |-> <<>>, count |-> 0, score |-> 0]
  ELSE LET r == ForEachStopWord(text, stopWords, <<>>)
           totalWords == SplitLength(text)
           foundWordsCount == SumCounts(r.found)
       IN IF r.raised THEN [raised |-> TRUE, found |-> <<>>, count |-> 0, score |-> 0]
          ELSE [raised |-> FALSE, found |-> r.found, count |-> Len(r.found),
                score |-> IF totalWords > 0
                          THEN Min(100 * 100, RoundHundredths(100 * foundWordsCount, totalWords))
                          ELSE 0]

(***************************************************************************)
(* The archived HTML documents.  A document is given by what the DOM       *)
(* parser reads out of it: the text of body, of title, and the content of  *)
(* the description and keywords meta tags.                                 *)
(***************************************************************************)
Html(body, title, description, keywords) ==
  [body |-> body, title |-> title, description |-> description, keywords |-> keywords]

\* extractTextContent: $('body').text() || $('html').text(), whitespace
\* collapsed, trimmed, lowercased.  With an empty body the document's text is
\* the text of its head, the title.
extractTextContent(html) ==
  LET text == IF html.body # <<>> THEN html.body ELSE html.title
  IN toLowerCase(trim(CollapseSpaces(text)))

extractMetaTags(html) ==
  [title |-> trim(html.title), description |-> html.description, keywords |-> html.keywords]

\* [a, b, c, d].filter(Boolean).join(' ')
RECURSIVE JoinNonEmpty(_)
JoinNonEmpty(parts) ==
  IF parts = <<>> THEN <<>>
  ELSE LET rest == JoinNonEmpty(Tail(parts))
       IN IF Head(parts) = <<>> THEN rest
          ELSE IF rest = <<>> THEN Head(parts)
          ELSE Head(parts) \o <<" ">> \o rest

SpamScoreThreshold == 5

\* (mutant) the count test lets a count of zero through
analyzeHtmlForSpamAnyCount(html, words) ==
  LET textContent == extractTextContent(html)
      metaTags == extractMetaTags(html)
      allText == JoinNonEmpty(<<textContent, metaTags.title, metaTags.description,
                                metaTags.keywords>>)
      stopWordsCheck == checkStopWords(allText, words)
  IN [raised |-> stopWordsCheck.raised,
      textLength |-> Len(textContent),
      stopWords |-> stopWordsCheck,
      isSpam |-> stopWordsCheck.count >= 0 \/ stopWordsCheck.score > SpamScoreThreshold * 100,
      spamScore |-> stopWordsCheck.score]

analyzeHtmlForSpam(html, words) ==
  LET textContent == extractTextContent(html)
      metaTags == extractMetaTags(html)
      allText == JoinNonEmpty(<<textContent, metaTags.title, metaTags.description,
                                metaTags.keywords>>)
      stopWordsCheck == checkStopWords(allText, words)
  IN [raised |-> stopWordsCheck.raised,
      textLength |-> Len(textContent),
      stopWords |-> stopWordsCheck,
      isSpam |-> stopWordsCheck.count > 0 \/ stopWordsCheck.score > SpamScoreThreshold * 100,
      spamScore |-> stopWordsCheck.score]

(***************************************************************************)
(* The Map allFoundStopWords, as the sequence of its entries in insertion  *)
(* order, and the final sort.                                              *)
(***************************************************************************)
MapGet(m, w) ==
  IF \E k \in 1..Len(m) : m[k].word = w
  THEN (CHOOSE e \in {m[k] : k \in 1..Len(m)} : e.word = w).count
  ELSE 0

MapSet(m, w, c) ==
  IF \E k \in 1..Len(m) : m[k].word = w
  THEN [k \in 1..Len(m) |-> IF m[k].word = w THEN [word |-> w, count |-> c] ELSE m[k]]
  ELSE Append(m, [word |-> w, count |-> c])

\* analysis.stopWords.found.forEach(item => map.set(word, (map.get(word) || 0) + count))
RECURSIVE TrackStopWords(_, _)
TrackStopWords(m, found) ==
  IF found = <<>> THEN m
  ELSE TrackStopWords(MapSet(m, Head(found).word, MapGet(m, Head(found).word) + Head(found).count),
                      Tail(found))

\* Array.prototype.sort((a, b) => b.count - a.count): stable, count descending
RECURSIVE InsertByCount(_, _)
InsertByCount(sorted, e) ==
  IF sorted = <<>> THEN <<e>>
  ELSE IF Head(sorted).count >= e.count THEN <<Head(sorted)>> \o InsertByCount(Tail(sorted), e)
  ELSE <<e>> \o sorted

RECURSIVE SortByCountDesc(_)
SortByCountDesc(m) ==
  IF m = <<>> THEN <<>>
  ELSE InsertByCount(SortByCountDesc(SubSeq(m, 1, Len(m) - 1)), m[Len(m)])

(***************************************************************************)
(* The inputs of the calls and what the Snapshot Client may answer.        *)
(***************************************************************************)
Null == "null"

\* `!firstSpamDate`: null and the empty string are both falsy
IsFalsy(v) == v = Null \/ v = ""

\* domain strings: blank ones, plain ones and ones that need trimming
DomainStrings == {<<" ">>, <<"a">>, <<" ", "b">>}

DomainLists == UNION {[1..n -> DomainStrings] : n \in 0..MaxDomains}

StopWordLists == {<< <<"a">>, <<" ", "B">>, <<"(">> >>}

\* progressCallback: null, or a function that records what it is given
Callbacks == {Null, "fn"}

\* a progressCallback that throws whenever it is called (its first call is
\* the log of index.js:82), and every callback a caller may pass
Throwing == "throws"
CallbackError == "callback failed"
AnyCallbacks == Callbacks \cup {Throwing}

\* documents of the archive: one without any stop word, one with stop words,
\* one whose text makes the scorer's RegExp constructor throw
CleanHtml == Html(<<"O", "k", " ", " ", "o", "k">>, <<>>, <<>>, <<>>)
SpamHtml == Html(<<"A", " ", "a", "b">>, <<" ", "b">>, <<>>, <<"o", "k", " ", "o", " ", "k">>)
BrokenHtml == Html(<<"a", "(">>, <<>>, <<>>, <<>>)
Htmls == {CleanHtml, SpamHtml, BrokenHtml}

\* documents with one stop word each, which make the cumulative counts of
\* the stop words differ
AOnlyHtml == Html(<<"a">>, <<>>, <<>>, <<>>)
BOnlyHtml == Html(<<"o", "k">>, <<"B">>, <<>>, <<>>)
TallyHtmls == {CleanHtml, SpamHtml, AOnlyHtml, BOnlyHtml}

ClientErrors == {"HTTP 429"}

\* the k-th snapshot record of a listing
SnapshotRecord(k) == [timestamp |-> ToString(2000 + k), originalUrl |-> k]

\* client.getSnapshots(target, limit): at most limit records
SnapshotLists(limit) == {[k \in 1..n |-> SnapshotRecord(k)] : n \in 0..limit}

\* the same listings, and those whose first record has an empty timestamp
\* (a record's timestamp is opaque to the adapter)
OpaqueSnapshotLists(limit) ==
  SnapshotLists(limit) \cup
    {[k \in 1..n |-> IF k = 1 THEN [timestamp |-> "", originalUrl |-> k]
                               ELSE SnapshotRecord(k)] : n \in 1..limit}

(***************************************************************************)
(* State.                                                                  *)
(***************************************************************************)
VARIABLES
  archive,           \* the documents the web archive holds
  entry,             \* the method the caller invoked
  pc,                \* where the call is suspended (which await)
  domains,           \* analyzeDomainsForSpam arguments
  stopWords,
  maxSnapshots,
  progressCallback,
  results,           \* analyzeDomainsForSpam: results
  i,                 \* analyzeDomainsForSpam: loop index (0-based)
  domain,            \* analyzeDomainForSpam argument
  snapshots,         \* analyzeDomainForSpam locals
  si,                \*   the snapshot loop's index i (0-based)
  spamSnapshots,
  totalSpamScore,
  allFoundStopWords,
  firstSpamDate,
  outcome,           \* how the analyzeDomainForSpam promise settled
  returned,          \* what the analyzeDomainsForSpam promise resolved to
  outstanding,       \* Snapshot Client calls issued and not yet settled
  progress,          \* what progressCallback has been given, in order
  trace,             \* client calls and delays started, in order
  replies,           \* what the client answered, in order
  scorerText,        \* the text (or HTML body) given to the scorer called on its own
  scorerList,        \* the stop-word list given to it
  scorerOut          \* what the scorer gave back

vars == <<archive, entry, pc, domains, stopWords, maxSnapshots, progressCallback, results, i,
          domain, snapshots, si, spamSnapshots, totalSpamScore, allFoundStopWords,
          firstSpamDate, outcome, returned, outstanding, progress, trace, replies,
          scorerText, scorerList, scorerOut>>

scorer == <<scorerText, scorerList, scorerOut>>
inputs == <<archive, entry, domains, stopWords, maxSnapshots, progressCallback>>
locals == <<snapshots, si, spamSnapshots, totalSpamScore, allFoundStopWords, firstSpamDate>>

NoOutcome == [kind |-> "none"]

\* the adapter is constructed and nothing has been called
AdapterIdle ==
  /\ pc = "idle" /\ entry = Null
  /\ domains = <<>> /\ stopWords = <<>> /\ maxSnapshots = 0
  /\ progressCallback = Null
  /\ results = <<>> /\ i = 0 /\ domain = <<>>
  /\ snapshots = <<>> /\ si = 0 /\ spamSnapshots = 0 /\ totalSpamScore = 0
  /\ allFoundStopWords = <<>> /\ firstSpamDate = Null
  /\ outcome = NoOutcome /\ returned = Null
  /\ outstanding = {} /\ progress = <<>> /\ trace = <<>> /\ replies = <<>>

\* the scorer has not been called on its own
NotScored == [op |-> "none"]

ScorerIdle == scorerText = <<>> /\ scorerList = <<>> /\ scorerOut = NotScored

Idle == AdapterIdle /\ ScorerIdle

\* batches run against an archive of spam pages, single analyses against an
\* archive that holds every kind of page
Init == Idle /\ archive = {SpamHtml}

InitDomain == Idle /\ archive = Htmls

(***************************************************************************)
(* Progress messages.  analyzeDomainForSpam's log gives its message to the *)
(* callback it was handed; the one the batch hands it prefixes             *)
(* `[i+1/N] domain: ` and calls progressCallback if that is set.           *)
(***************************************************************************)
Message(text) ==
  [prefix |-> IF entry = "analyzeDomainsForSpam" THEN <<i + 1, Len(domains), domain>> ELSE <<>>,
   text |-> text]

BatchMessage(idx, n, dom, text) == [prefix |-> <<idx + 1, n, dom>>, text |-> text]

log(cb, prog, msg) == IF cb # Null THEN Append(prog, msg) ELSE prog

Event(op, idx, k) == [op |-> op, i |-> idx, si |-> k]

Reply(op, idx, k, ok, val) == [op |-> op, i |-> idx, si |-> k, ok |-> ok, val |-> val]

(***************************************************************************)
(* analyzeDomainForSpam: the results it builds.                            *)
(***************************************************************************)
NoSnapshotsResult(dom) ==
  [domain |-> dom, snapshotsChecked |-> 0, spamDetected |-> FALSE, spamScore |-> 0,
   totalStopWordsFound |-> 0, stopWordsFound |-> <<>>, firstSpamDate |-> Null,
   status |-> "no_snapshots"]

SpamStatusThreshold == 50

\* (mutant) the boundary of 'spam' is exclusive
StatusOfExclusive(spam, n) ==
  IF 100 * spam > SpamStatusThreshold * n THEN "spam"
  ELSE IF 100 * spam > 0 THEN "suspicious"
  ELSE "clean"

\* spamPercentage = spam / n * 100, compared before it is rounded
StatusOf(spam, n) ==
  IF 100 * spam >= SpamStatusThreshold * n THEN "spam"
  ELSE IF 100 * spam > 0 THEN "suspicious"
  ELSE "clean"

DomainAnalysis(dom, n, spam, total, found, first) ==
  [domain |-> dom,
   snapshotsChecked |-> n,
   spamSnapshots |-> spam,
   spamPercentage |-> RoundHundredths(100 * spam, n),
   avgSpamScore |-> IF spam > 0 THEN (2 * total + spam) \div (2 * spam) ELSE 0,
   spamDetected |-> spam > 0,
   totalStopWordsFound |-> Len(found),
   stopWordsFound |-> SortByCountDesc(found),
   firstSpamDate |-> first,
   status |-> StatusOf(spam, n)]

Returned(value) == [kind |-> "return", value |-> value]
Thrown(message) == [kind |-> "throw", message |-> message]

\* (mutant) the error is rethrown as it came
DomainFailureBare(message) == Thrown(message)

\* the outer catch: throw new Error(`Domain analysis failed: ${error.message}`)
DomainFailure(message) == Thrown("Domain analysis failed: " \o message)

ErrorRecord(dom, message) == [domain |-> dom, error |-> message, status |-> "error"]

(***************************************************************************)
(* Pieces of control flow shared by several continuations.                 *)
(***************************************************************************)
\* (mutant) blank entries are not skipped
SkipBlankNever(ds, k) == k

\* the index of the first non-blank domain at or after k (Len(ds) if none):
\* `if (!domain) continue`
RECURSIVE SkipBlank(_, _)
SkipBlank(ds, k) ==
  IF k < Len(ds) /\ trim(ds[k + 1]) = <<>> THEN SkipBlank(ds, k + 1) ELSE k

\* (mutant) the batch awaits the call outside any try/catch: a rejection
\* ends the batch
SettleForUncaught(caller, o) ==
  /\ pc' = IF caller # "analyzeDomainsForSpam" THEN "settled"
           ELSE IF o.kind = "throw" THEN "rejected"
           ELSE "awaitAnalyzeDomain"
  /\ outcome' = o

\* the promise of analyzeDomainForSpam settles for the caller `caller`; a
\* batch resumes in AnalyzeDomainSettles
SettleFor(caller, o) ==
  /\ pc' = IF caller = "analyzeDomainsForSpam" THEN "awaitAnalyzeDomain" ELSE "settled"
  /\ outcome' = o

Settle(o) == SettleFor(entry, o)

\* analyzeDomainForSpam(dom, ...) from its first line to its first await, as
\* the call of the batch's domain idx (0 for a direct call).  When the
\* callback throws in the first log, the outer catch rejects the call before
\* the client is asked anything.
StartDomain(caller, dom, cb, limit, msg, out, idx) ==
  /\ domain' = dom
  /\ IF cb = Throwing
     THEN /\ SettleFor(caller, DomainFailure(CallbackError))
          /\ outstanding' = out
          /\ UNCHANGED <<progress, trace>>
     ELSE /\ pc' = "awaitGetSnapshots"
          /\ progress' = log(cb, progress, msg)
          /\ outstanding' = out \cup {[op |-> "getSnapshots", target |-> dom, limit |-> limit]}
          /\ trace' = Append(trace, Event("getSnapshots", idx, 0))
          /\ UNCHANGED outcome

\* the batch loop from index k on, up to its next await or its return
BatchLoop(ds, cb, limit, k, res, out) ==
  LET j == SkipBlank(ds, k)
  IN IF j >= Len(ds)
     THEN /\ pc' = "returned"
          /\ returned' = res
          /\ i' = j
          /\ outstanding' = out
          /\ UNCHANGED <<domain, progress, trace, outcome>>
     ELSE LET dom == trim(ds[j + 1])
          IN /\ i' = j
             /\ StartDomain("analyzeDomainsForSpam", dom, cb, limit,
                            BatchMessage(j, Len(ds), dom, "Analyzing domain"), out, j)
             /\ UNCHANGED returned

\* (mutant) the fetch of the following snapshot is started without awaiting
\* the current one
SnapshotLoopPrefetch(snaps, k, spam, total, found, first, prog, out) ==
  IF k < Len(snaps)
  THEN /\ pc' = "awaitGetSnapshotHtml"
       /\ progress' = prog
       /\ outstanding' = out \cup {[op |-> "getSnapshotHtml", snapshot |-> snaps[m]] :
                                     m \in {k + 1, Min(k + 2, Len(snaps))}}
       /\ trace' = Append(trace, Event("getSnapshotHtml", i, k))
       /\ UNCHANGED outcome
  ELSE /\ Settle(Returned(DomainAnalysis(domain, Len(snaps), spam, total, found, first)))
       /\ progress' = prog
       /\ outstanding' = {}
       /\ UNCHANGED trace

\* one pass of the snapshot loop from its test `i < snapshots.length` with
\* index k, up to the next await or the return after the loop
SnapshotLoop(snaps, k, spam, total, found, first, prog, out) ==
  IF k < Len(snaps)
  THEN /\ pc' = "awaitGetSnapshotHtml"
       /\ progress' = log(progressCallback, prog,
                          Message("[" \o ToString(k + 1) \o "/" \o ToString(Len(snaps))
                                  \o "] Checking snapshot " \o snaps[k + 1].timestamp
                                  \o "..."))
       /\ outstanding' = out \cup {[op |-> "getSnapshotHtml", snapshot |-> snaps[k + 1]]}
       /\ trace' = Append(trace, Event("getSnapshotHtml", i, k))
       /\ UNCHANGED outcome
  ELSE /\ Settle(Returned(DomainAnalysis(domain, Len(snaps), spam, total, found, first)))
       /\ progress' = prog
       /\ outstanding' = out
       /\ UNCHANGED trace

(***************************************************************************)
(* The steps: each runs the code from one await to the next.               *)
(***************************************************************************)
\* analyzeDomainsForSpam(domains, stopWords, maxSnapshots, progressCallback)
\* is called and runs to its first await
CallWith(cbs) ==
  /\ pc = "idle"
  /\ \E ds \in DomainLists, words \in StopWordLists, cb \in cbs :
       /\ entry' = "analyzeDomainsForSpam"
       /\ domains' = ds
       /\ stopWords' = words
       /\ maxSnapshots' = BatchMaxSnapshots
       /\ progressCallback' = cb
       /\ results' = <<>>
       /\ BatchLoop(ds, cb, BatchMaxSnapshots, 0, <<>>, outstanding)
  /\ UNCHANGED <<scorer, archive, locals, replies>>

Call == CallWith(Callbacks)

\* analyzeDomainForSpam(domain, stopWords, maxSnapshots, progressCallback)
\* is called directly and runs to its first await
CallDomainWith(cbs, lists) ==
  /\ pc = "idle"
  /\ \E dom \in DomainStrings, words \in lists, cb \in cbs :
       /\ entry' = "analyzeDomainForSpam"
       /\ stopWords' = words
       /\ maxSnapshots' = DomainMaxSnapshots
       /\ progressCallback' = cb
       /\ StartDomain("analyzeDomainForSpam", dom, cb, DomainMaxSnapshots,
                      [prefix |-> <<>>, text |-> "Analyzing domain"], outstanding, 0)
  /\ UNCHANGED <<scorer, archive, domains, results, i, locals, returned, replies>>

CallDomain == CallDomainWith(Callbacks, StopWordLists)

\* (mutant) the accumulators live on and are not set up again for each call
StaleCounters ==
  [spam |-> spamSnapshots, total |-> totalSpamScore, found |-> allFoundStopWords,
   first |-> firstSpamDate]

\* let spamSnapshots = 0; let totalSpamScore = 0; new Map(); let firstSpamDate = null
FreshCounters == [spam |-> 0, total |-> 0, found |-> <<>>, first |-> Null]

GetSnapshotsCall == [op |-> "getSnapshots", target |-> domain, limit |-> maxSnapshots]

\* `await this.getSnapshots(domain, maxSnapshots)` resumes with a list, one
\* of `lists`
GetSnapshotsResumes(lists) ==
  /\ pc = "awaitGetSnapshots"
  /\ \E list \in lists :
       /\ replies' = Append(replies, Reply("getSnapshots", i, 0, TRUE, list))
       /\ snapshots' = list
       /\ IF Len(list) = 0
          THEN /\ Settle(Returned(NoSnapshotsResult(domain)))
               /\ outstanding' = outstanding \ {GetSnapshotsCall}
               /\ UNCHANGED <<si, spamSnapshots, totalSpamScore, allFoundStopWords,
                              firstSpamDate, progress, trace>>
          ELSE /\ si' = 0
               /\ spamSnapshots' = FreshCounters.spam
               /\ totalSpamScore' = FreshCounters.total
               /\ allFoundStopWords' = FreshCounters.found
               /\ firstSpamDate' = FreshCounters.first
               /\ SnapshotLoop(list, 0, FreshCounters.spam, FreshCounters.total,
                               FreshCounters.found, FreshCounters.first,
                               log(progressCallback, progress,
                                   Message("Found " \o ToString(Len(list))
                                           \o " snapshots, analyzing...")),
                               outstanding \ {GetSnapshotsCall})
  /\ UNCHANGED <<scorer, inputs, results, i, domain, returned>>

GetSnapshotsReturns == GetSnapshotsResumes(SnapshotLists(maxSnapshots))

\* `await this.getSnapshots(...)` throws: the outer catch rethrows
GetSnapshotsRaises ==
  /\ pc = "awaitGetSnapshots"
  /\ \E message \in ClientErrors :
       /\ replies' = Append(replies, Reply("getSnapshots", i, 0, FALSE, message))
       /\ Settle(DomainFailure(message))
  /\ outstanding' = outstanding \ {GetSnapshotsCall}
  /\ UNCHANGED <<scorer, inputs, results, i, domain, locals, returned, progress, trace>>

GetSnapshotHtmlCall == [op |-> "getSnapshotHtml", snapshot |-> snapshots[si + 1]]

\* (mutant) no inner try/catch: the error reaches the outer catch
SnapshotFailedAborts(message) ==
  /\ Settle(DomainFailure(message))
  /\ outstanding' = outstanding \ {GetSnapshotHtmlCall}
  /\ UNCHANGED <<si, progress, trace, snapshots, spamSnapshots, totalSpamScore,
                 allFoundStopWords, firstSpamDate>>

\* the inner catch: log the error, then i++ and the loop test
SnapshotFailed(message) ==
  /\ si' = si + 1
  /\ SnapshotLoop(snapshots, si + 1, spamSnapshots, totalSpamScore, allFoundStopWords,
                  firstSpamDate,
                  log(progressCallback, progress,
                      Message("Error analyzing snapshot " \o snapshots[si + 1].timestamp
                              \o ": " \o message)),
                  outstanding \ {GetSnapshotHtmlCall})
  /\ UNCHANGED <<snapshots, spamSnapshots, totalSpamScore, allFoundStopWords, firstSpamDate>>

RegExpError == "Invalid regular expression"

\* `await this.getSnapshotHtml(snapshot)` resumes with the HTML; the snapshot
\* is analyzed and the loop runs on to its delay, its next fetch or the return
GetSnapshotHtmlReturns ==
  /\ pc = "awaitGetSnapshotHtml"
  /\ \E html \in archive :
       \E analysis \in {analyzeHtmlForSpam(html, stopWords)} :
         /\ replies' = Append(replies, Reply("getSnapshotHtml", i, si, TRUE, html))
         /\ IF analysis.raised
            THEN SnapshotFailed(RegExpError)
            ELSE \E spam \in {IF analysis.isSpam THEN spamSnapshots + 1 ELSE spamSnapshots},
                    total \in {IF analysis.isSpam THEN totalSpamScore + analysis.spamScore
                               ELSE totalSpamScore},
                    found \in {IF analysis.isSpam
                               THEN TrackStopWords(allFoundStopWords, analysis.stopWords.found)
                               ELSE allFoundStopWords},
                    first \in {IF analysis.isSpam /\ IsFalsy(firstSpamDate)
                               THEN snapshots[si + 1].timestamp ELSE firstSpamDate} :
                   /\ spamSnapshots' = spam
                   /\ totalSpamScore' = total
                   /\ allFoundStopWords' = found
                   /\ firstSpamDate' = first
                   /\ UNCHANGED snapshots
                   /\ IF si < Len(snapshots) - 1
                      THEN /\ pc' = "awaitDelay1500"
                           /\ trace' = Append(trace, Event("delay1500", i, si))
                           /\ outstanding' = outstanding \ {GetSnapshotHtmlCall}
                           /\ UNCHANGED <<si, progress, outcome>>
                      ELSE /\ si' = si + 1
                           /\ SnapshotLoop(snapshots, si + 1, spam, total, found, first,
                                           progress, outstanding \ {GetSnapshotHtmlCall})
  /\ UNCHANGED <<scorer, inputs, results, i, domain, returned>>

\* `await this.getSnapshotHtml(snapshot)` throws: the inner catch
GetSnapshotHtmlRaises ==
  /\ pc = "awaitGetSnapshotHtml"
  /\ \E message \in ClientErrors :
       /\ replies' = Append(replies, Reply("getSnapshotHtml", i, si, FALSE, message))
       /\ SnapshotFailed(message)
  /\ UNCHANGED <<scorer, inputs, results, i, domain, returned>>

\* the 1500 ms timer fires: i++ and the loop test
Delay1500Elapses ==
  /\ pc = "awaitDelay1500"
  /\ si' = si + 1
  /\ SnapshotLoop(snapshots, si + 1, spamSnapshots, totalSpamScore, allFoundStopWords,
                  firstSpamDate, progress, outstanding)
  /\ UNCHANGED <<scorer, inputs, results, i, domain, returned, snapshots, spamSnapshots,
                 totalSpamScore, allFoundStopWords, firstSpamDate, replies>>

\* `await this.analyzeDomainForSpam(...)` resumes in the batch: push the
\* result or the error record, then the delay or the rest of the loop
AnalyzeDomainSettles ==
  /\ pc = "awaitAnalyzeDomain"
  /\ IF outcome.kind = "throw" /\ progressCallback = Throwing
     THEN \* the log of the catch block throws: the batch's promise rejects
          /\ pc' = "rejected"
          /\ outcome' = Thrown(CallbackError)
          /\ UNCHANGED <<results, i, domain, returned, outstanding, progress, trace>>
     ELSE /\ LET res == IF outcome.kind = "return"
                        THEN Append(results, outcome.value)
                        ELSE Append(results, ErrorRecord(domain, outcome.message))
             IN /\ results' = res
                /\ IF i < Len(domains) - 1
                   THEN /\ pc' = "awaitDelay3000"
                        /\ trace' = Append(trace, Event("delay3000", i, 0))
                        /\ progress' = IF outcome.kind = "return" THEN progress
                                       ELSE log(progressCallback, progress,
                                                Message("Error: " \o outcome.message))
                        /\ UNCHANGED <<i, domain, returned, outstanding>>
                   ELSE /\ progress' = IF outcome.kind = "return" THEN progress
                                       ELSE log(progressCallback, progress,
                                                Message("Error: " \o outcome.message))
                        /\ pc' = "returned"
                        /\ returned' = res
                        /\ i' = i + 1
                        /\ UNCHANGED <<domain, outstanding, trace>>
          /\ outcome' = NoOutcome
  /\ UNCHANGED <<scorer, inputs, locals, replies>>

\* the 3000 ms timer fires: i++ and the loop test
Delay3000Elapses ==
  /\ pc = "awaitDelay3000"
  /\ BatchLoop(domains, progressCallback, maxSnapshots, i + 1, results, outstanding)
  /\ UNCHANGED <<scorer, inputs, results, locals, replies>>

Next ==
  \/ Call
  \/ GetSnapshotsReturns
  \/ GetSnapshotsRaises
  \/ GetSnapshotHtmlReturns
  \/ GetSnapshotHtmlRaises
  \/ Delay1500Elapses
  \/ AnalyzeDomainSettles
  \/ Delay3000Elapses

Spec == Init /\ [][Next]_vars

\* Every awaited client call settles, every timer fires, and the event loop
\* resumes the batch once the promise it awaits has settled.
Fairness ==
  /\ WF_vars(GetSnapshotsRaises \/ GetSnapshotsReturns)
  /\ WF_vars(GetSnapshotHtmlRaises \/ GetSnapshotHtmlReturns)
  /\ WF_vars(Delay1500Elapses)
  /\ WF_vars(AnalyzeDomainSettles)
  /\ WF_vars(Delay3000Elapses)

SpecLive == Init /\ [][Next]_vars /\ Fairness

NextDomain ==
  \/ CallDomain
  \/ GetSnapshotsReturns
  \/ GetSnapshotsRaises
  \/ GetSnapshotHtmlReturns
  \/ GetSnapshotHtmlRaises
  \/ Delay1500Elapses

SpecDomain == InitDomain /\ [][NextDomain]_vars

(***************************************************************************)
(* SpecLast: a single analysis from the await of the last snapshot's HTML  *)
(* of a listing of n snapshots, of which the first s were flagged spam and *)
(* the others were clean.  It reaches the listings too long to be walked   *)
(* step by step.                                                           *)
(***************************************************************************)
LongListings ==
  {<<n, s>> : n \in 1..MaxLongListing, s \in 0..MaxLongListing} \cup {<<10001, 5000>>, <<20001, 0>>}

AwaitingLast(n, s, words) ==
  LET list == [k \in 1..n |-> SnapshotRecord(k)]
      spamAnalysis == analyzeHtmlForSpam(SpamHtml, words)
      spamFound == spamAnalysis.stopWords.found
  IN /\ s < n
     /\ archive = Htmls
     /\ ScorerIdle
     /\ entry = "analyzeDomainForSpam" /\ pc = "awaitGetSnapshotHtml"
     /\ domains = <<>> /\ results = <<>> /\ i = 0 /\ returned = Null
     /\ stopWords = words /\ maxSnapshots = n /\ progressCallback = Null
     /\ domain = <<"a">>
     /\ snapshots = list
     /\ si = n - 1
     /\ spamSnapshots = s
     /\ totalSpamScore = s * spamAnalysis.spamScore
     /\ allFoundStopWords =
          IF s = 0 THEN <<>>
          ELSE [k \in 1..Len(spamFound) |->
                  [word |-> spamFound[k].word, count |-> s * spamFound[k].count]]
     /\ firstSpamDate = IF s = 0 THEN Null ELSE list[1].timestamp
     /\ outcome = NoOutcome
     /\ outstanding = {[op |-> "getSnapshotHtml", snapshot |-> list[n]]}
     /\ progress = <<>>
     /\ trace = [m \in 1..(2 * n) |->
                   IF m = 1 THEN Event("getSnapshots", 0, 0)
                   ELSE IF m % 2 = 0 THEN Event("getSnapshotHtml", 0, (m - 2) \div 2)
                   ELSE Event("delay1500", 0, (m - 3) \div 2)]
     /\ replies = [m \in 1..n |->
                     IF m = 1 THEN Reply("getSnapshots", 0, 0, TRUE, list)
                     ELSE Reply("getSnapshotHtml", 0, m - 2, TRUE,
                                IF m - 2 < s THEN SpamHtml ELSE CleanHtml)]

InitLast == \E p \in LongListings, words \in StopWordLists : AwaitingLast(p[1], p[2], words)

NextLast ==
  \/ GetSnapshotHtmlReturns
  \/ GetSnapshotHtmlRaises

SpecLast == InitLast /\ [][NextLast]_vars

(***************************************************************************)
(* SpecCallback: batches and single analyses called with any callback,     *)
(* one that throws included.                                               *)
(***************************************************************************)
CallAnyCallback == CallWith(AnyCallbacks)

CallDomainAnyCallback == CallDomainWith(AnyCallbacks, StopWordLists)

NextCallback ==
  \/ CallAnyCallback
  \/ CallDomainAnyCallback
  \/ GetSnapshotsReturns
  \/ GetSnapshotsRaises
  \/ GetSnapshotHtmlReturns
  \/ GetSnapshotHtmlRaises
  \/ Delay1500Elapses
  \/ AnalyzeDomainSettles
  \/ Delay3000Elapses

SpecCallback == Init /\ [][NextCallback]_vars

(***************************************************************************)
(* SpecDefaults: single analyses called with the default stop-word list,   *)
(* `stopWords = []`.                                                       *)
(***************************************************************************)
CallDomainDefaults == CallDomainWith(Callbacks, {<<>>})

NextDefaults ==
  \/ CallDomainDefaults
  \/ GetSnapshotsReturns
  \/ GetSnapshotsRaises
  \/ GetSnapshotHtmlReturns
  \/ GetSnapshotHtmlRaises
  \/ Delay1500Elapses

SpecDefaults == InitDomain /\ [][NextDefaults]_vars

(***************************************************************************)
(* SpecTally: single analyses against an archive whose pages hold          *)
(* different stop words, with listings whose timestamps are opaque.        *)
(***************************************************************************)
InitTally == Idle /\ archive = TallyHtmls

GetSnapshotsReturnsOpaque == GetSnapshotsResumes(OpaqueSnapshotLists(maxSnapshots))

NextTally ==
  \/ CallDomain
  \/ GetSnapshotsReturnsOpaque
  \/ GetSnapshotsRaises
  \/ GetSnapshotHtmlReturns
  \/ GetSnapshotHtmlRaises
  \/ Delay1500Elapses

SpecTally == InitTally /\ [][NextTally]_vars

(***************************************************************************)
(* SpecScore: the exported scorer functions called on their own, on every  *)
(* text of at most MaxTextLen characters and every list of at most         *)
(* MaxListLen stop words.                                                  *)
(***************************************************************************)
TextChars == {"a", "B", " ", "("}

Texts == UNION {[1..n -> TextChars] : n \in 0..MaxTextLen}

\* stop words: plain ones, one that normalizes to another one, one of two
\* characters, a RegExp metacharacter and a blank one
ScoreWords == {<<"a">>, <<" ", "A">>, <<"a", "b">>, <<"(">>, <<" ">>}

ScoreLists == UNION {[1..n -> ScoreWords] : n \in 0..MaxListLen}

\* the titles of the documents given to analyzeHtmlForSpam
ScoreTitles == {<<>>, <<"B">>}

adapter == <<inputs, pc, results, i, domain, locals, outcome, returned, outstanding,
             progress, trace, replies>>

InitScore ==
  /\ AdapterIdle /\ archive = {}
  /\ scorerText \in Texts /\ scorerList \in ScoreLists /\ scorerOut = NotScored

\* checkStopWords(text, stopWords) is called
CheckStopWords ==
  /\ scorerOut = NotScored
  /\ scorerOut' = [op |-> "checkStopWords",
                   result |-> checkStopWords(scorerText, scorerList)]
  /\ UNCHANGED <<adapter, scorerText, scorerList>>

\* analyzeHtmlForSpam(html, stopWords) is called on a document whose body is
\* the text
AnalyzeHtml ==
  /\ scorerOut = NotScored
  /\ \E title \in ScoreTitles :
       scorerOut' = [op |-> "analyzeHtmlForSpam",
                     html |-> Html(scorerText, title, <<>>, <<>>),
                     result |-> analyzeHtmlForSpam(Html(scorerText, title, <<>>, <<>>),
                                                   scorerList)]
  /\ UNCHANGED <<adapter, scorerText, scorerList>>

NextScore ==
  \/ CheckStopWords
  \/ AnalyzeHtml

SpecScore == InitScore /\ [][NextScore]_vars

(***************************************************************************)
(* What the histories say.                                                 *)
(***************************************************************************)
\* the 0-based indices of the non-blank entries of ds, in order
RECURSIVE NonBlankFrom(_, _)
NonBlankFrom(ds, k) ==
  IF k >= Len(ds) THEN <<>>
  ELSE IF trim(ds[k + 1]) = <<>> THEN NonBlankFrom(ds, k + 1)
  ELSE <<k>> \o NonBlankFrom(ds, k + 1)

NonBlank(ds) == NonBlankFrom(ds, 0)

\* the client's answers to the calls made for the domain at batch index idx
ListReplies(idx) == SelectSeq(replies, LAMBDA r : r.op = "getSnapshots" /\ r.i = idx)
HtmlReplies(idx) == SelectSeq(replies, LAMBDA r : r.op = "getSnapshotHtml" /\ r.i = idx)

\* a snapshot was fetched and analyzed without an error
Analyzed(r) == r.ok /\ ~analyzeHtmlForSpam(r.val, stopWords).raised
FlaggedSpam(r) == Analyzed(r) /\ analyzeHtmlForSpam(r.val, stopWords).isSpam

\* the record a domain gets when it is analyzed on its own and the client
\* answers it with the listing `list` and the per-snapshot answers `htmls`
FoldStep(list, r, acc) ==
  CHOOSE next \in
    { IF r.ok /\ ~a.raised /\ a.isSpam
      THEN [spam |-> acc.spam + 1,
            total |-> acc.total + a.spamScore,
            found |-> TrackStopWords(acc.found, a.stopWords.found),
            first |-> IF IsFalsy(acc.first) THEN list[r.si + 1].timestamp ELSE acc.first]
      ELSE acc : a \in IF r.ok THEN {analyzeHtmlForSpam(r.val, stopWords)}
                                ELSE {Null} } : TRUE

RECURSIVE FoldSpam(_, _, _)
FoldSpam(list, htmls, acc) ==
  IF htmls = <<>> THEN acc
  ELSE FoldSpam(list, Tail(htmls), FoldStep(list, Head(htmls), acc))

RecordAlone(dom, listReply, htmls) ==
  IF ~listReply.ok
  THEN [domain |-> dom, error |-> "Domain analysis failed: " \o listReply.val,
        status |-> "error"]
  ELSE IF listReply.val = <<>> THEN NoSnapshotsResult(dom)
  ELSE LET acc == FoldSpam(listReply.val, htmls,
                           [spam |-> 0, total |-> 0, found |-> <<>>, first |-> Null])
       IN DomainAnalysis(dom, Len(listReply.val), acc.spam, acc.total, acc.found, acc.first)

AnalysisStatuses == {"no_snapshots", "clean", "suspicious", "spam"}

IsBatchRecord(r, dom) ==
  /\ r.domain = dom
  /\ \/ r.status = "error" /\ DOMAIN r = {"domain", "error", "status"}
     \/ r.status \in AnalysisStatuses /\ "error" \notin DOMAIN r

(***************************************************************************)
(* C1: the batch returns exactly one record per non-blank (after trimming) *)
(* input domain, in input order, each an analysis or an error record;      *)
(* blank domains produce no record.  While the batch runs, results holds   *)
(* the records of the non-blank domains before the current one, and a      *)
(* domain call that has settled, by return or by throw, leaves the batch   *)
(* inside its loop, about to record that domain.                           *)
(***************************************************************************)
C1_OneRecordPerNonBlankDomain ==
  /\ pc = "returned" =>
       /\ Len(returned) = Len(NonBlank(domains))
       /\ \A k \in 1..Len(returned) :
            IsBatchRecord(returned[k], trim(domains[NonBlank(domains)[k] + 1]))
  /\ (/\ entry = "analyzeDomainsForSpam"
      /\ pc \in {"awaitGetSnapshots", "awaitGetSnapshotHtml", "awaitDelay1500",
                  "awaitAnalyzeDomain"})
     => Len(results) = Len(NonBlank(SubSeq(domains, 1, i)))
  /\ outcome # NoOutcome => (pc = "awaitAnalyzeDomain" /\ i < Len(domains))

C1_Witness ==
  /\ pc = "returned"
  /\ Len(domains) = 2
  /\ \E k \in 1..2 : trim(domains[k]) = <<>>
  /\ Len(returned) = 1
  /\ returned[1].status = "error"

(***************************************************************************)
(* C2: a domain whose snapshot-list fetch raised gets the record           *)
(* {domain, error: message, status: 'error'}, and every domain of the      *)
(* batch gets the record it gets when analyzed alone against the same      *)
(* client answers, whatever happened to the other domains.                 *)
(***************************************************************************)
C2_FailureIsolated ==
  pc = "returned" =>
    \A k \in 1..Len(NonBlank(domains)) :
      LET idx == NonBlank(domains)[k]
      IN /\ Len(ListReplies(idx)) = 1
         /\ returned[k] = RecordAlone(trim(domains[idx + 1]), ListReplies(idx)[1],
                                      HtmlReplies(idx))

C2_Witness ==
  /\ pc = "returned"
  /\ Len(returned) = 2
  /\ returned[1].status = "error"
  /\ returned[2].status = "spam"
  /\ returned[2].snapshotsChecked = 2
  /\ returned[2].spamSnapshots = 1

(***************************************************************************)
(* Single analyses (SpecDomain): the call's own histories.                 *)
(***************************************************************************)
FetchEvents == SelectSeq(trace, LAMBDA e : e.op = "getSnapshotHtml")
DelayEvents == SelectSeq(trace, LAMBDA e : e.op = "delay1500")

ListReply == ListReplies(0)[1]
ListSucceeded == Len(ListReplies(0)) = 1 /\ ListReply.ok
ListFailed == Len(ListReplies(0)) = 1 /\ ~ListReply.ok

\* the message of the failure of a snapshot that was not analyzed
FailureMessage(r) == IF r.ok THEN RegExpError ELSE r.val

(***************************************************************************)
(* C3: when fetching or analyzing one snapshot fails, the failure is given *)
(* to the progress callback, every snapshot of the list is still fetched   *)
(* (in order), and the call returns a DomainAnalysis instead of raising.   *)
(***************************************************************************)
C3_SnapshotFailureSkipped ==
  (pc = "settled" /\ ListSucceeded) =>
    /\ outcome.kind = "return"
    /\ Len(FetchEvents) = Len(snapshots)
    /\ \A k \in 1..Len(FetchEvents) : FetchEvents[k].si = k - 1
    /\ Len(HtmlReplies(0)) = Len(snapshots)
    /\ progressCallback # Null =>
         \A k \in 1..Len(snapshots) :
           ~Analyzed(HtmlReplies(0)[k]) =>
             \E m \in 1..Len(progress) :
               progress[m].text = "Error analyzing snapshot " \o snapshots[k].timestamp
                                  \o ": " \o FailureMessage(HtmlReplies(0)[k])

C3_Witness ==
  /\ pc = "settled"
  /\ progressCallback # Null
  /\ Len(snapshots) = 3
  /\ ~HtmlReplies(0)[1].ok
  /\ HtmlReplies(0)[2].ok /\ ~Analyzed(HtmlReplies(0)[2])
  /\ FlaggedSpam(HtmlReplies(0)[3])
  /\ outcome.kind = "return"

AnalyzedCount == Len(SelectSeq(HtmlReplies(0), Analyzed))
SpamCount == Len(SelectSeq(HtmlReplies(0), FlaggedSpam))

(***************************************************************************)
(* C4: a snapshot whose fetch or analysis failed is excluded from every    *)
(* aggregate of the returned DomainAnalysis: snapshotsChecked counts the   *)
(* analyzed snapshots only, and spamPercentage is taken over them.         *)
(***************************************************************************)
C4_FailedSnapshotsExcluded ==
  (pc = "settled" /\ outcome.kind = "return" /\ outcome.value.status # "no_snapshots") =>
    /\ outcome.value.snapshotsChecked = AnalyzedCount
    /\ outcome.value.spamSnapshots = SpamCount
    /\ AnalyzedCount > 0 =>
         outcome.value.spamPercentage = RoundHundredths(100 * SpamCount, AnalyzedCount)

(***************************************************************************)
(* C5: when the snapshot-list fetch raises, the call raises the error      *)
(* wrapped with context, returns no result and fetches no snapshot HTML;   *)
(* the failure of a snapshot fetch never makes the call raise.             *)
(***************************************************************************)
C5_ListFailureIsFatal ==
  /\ ListFailed => FetchEvents = <<>>
  /\ pc = "settled" =>
       /\ ListFailed =>
            outcome = [kind |-> "throw",
                       message |-> "Domain analysis failed: " \o ListReply.val]
       /\ ListSucceeded => outcome.kind = "return"

C5_Witness ==
  /\ pc = "settled"
  /\ ListFailed
  /\ outcome.kind = "throw"

(***************************************************************************)
(* C6: a 1500 ms wait occurs between every two consecutive snapshot HTML   *)
(* fetches, whether the earlier one succeeded or failed, and none after    *)
(* the last snapshot.                                                      *)
(***************************************************************************)
C6_DelayBetweenFetches ==
  /\ \A k \in 1..(Len(trace) - 1) :
       trace[k].op = "getSnapshotHtml" => trace[k + 1].op = "delay1500"
  /\ pc = "settled" => trace[Len(trace)].op # "delay1500"

ZeroCounts == {"snapshotsChecked", "spamSnapshots", "spamPercentage", "avgSpamScore",
               "totalStopWordsFound"}

(***************************************************************************)
(* C9: with zero snapshots the call returns status 'no_snapshots',         *)
(* spamDetected false and the counts snapshotsChecked, spamSnapshots,      *)
(* spamPercentage, avgSpamScore and totalStopWordsFound all zero, without  *)
(* any snapshot fetch or wait; 'no_snapshots' is returned in no other case.*)
(***************************************************************************)
C9_NoSnapshots ==
  pc = "settled" =>
    /\ (ListSucceeded /\ ListReply.val = <<>>) =>
         /\ outcome.kind = "return"
         /\ outcome.value.status = "no_snapshots"
         /\ outcome.value.spamDetected = FALSE
         /\ FetchEvents = <<>> /\ DelayEvents = <<>>
         /\ \A f \in ZeroCounts : f \in DOMAIN outcome.value /\ outcome.value[f] = 0
    /\ (outcome.kind = "return" /\ outcome.value.status = "no_snapshots") =>
         (ListSucceeded /\ ListReply.val = <<>>)

(***************************************************************************)
(* C7: in a batch a 3000 ms wait occurs between every two consecutively    *)
(* analyzed domains and none after the last analyzed domain, blank entries *)
(* or not.                                                                 *)
(***************************************************************************)
C7_DelayBetweenDomains ==
  /\ \A p, q \in 1..Len(trace) :
       (p < q /\ trace[p].op = "getSnapshots" /\ trace[q].op = "getSnapshots") =>
         \E m \in p..q : trace[m].op = "delay3000"
  /\ (pc = "returned" /\ trace # <<>>) => trace[Len(trace)].op # "delay3000"

HasAnalysis ==
  pc = "settled" /\ outcome.kind = "return" /\ outcome.value.status # "no_snapshots"

(***************************************************************************)
(* C8: the status of a returned DomainAnalysis follows the spamPercentage  *)
(* it returns: 'spam' from 50.00 up, 'suspicious' strictly between 0 and   *)
(* 50.00, 'clean' at 0.                                                    *)
(***************************************************************************)
C8_StatusFollowsReturnedPercentage ==
  HasAnalysis =>
    outcome.value.status =
      IF outcome.value.spamPercentage >= 50 * 100 THEN "spam"
      ELSE IF outcome.value.spamPercentage > 0 THEN "suspicious"
      ELSE "clean"

\* C8 as amended: the status follows the exact ratio spamSnapshots /
\* snapshotsChecked ('spam' from one half up, 'clean' at zero, 'suspicious'
\* between), and agrees with the returned, rounded spamPercentage for
\* listings of at most 10000 snapshots.
C8_StatusFollowsExactRatio ==
  HasAnalysis =>
    LET v == outcome.value
    IN /\ v.status = IF 2 * v.spamSnapshots >= v.snapshotsChecked THEN "spam"
                     ELSE IF v.spamSnapshots > 0 THEN "suspicious"
                     ELSE "clean"
       /\ v.spamPercentage = RoundHundredths(100 * v.spamSnapshots, v.snapshotsChecked)
       /\ v.snapshotsChecked <= 10000 =>
            v.status = IF v.spamPercentage >= 50 * 100 THEN "spam"
                       ELSE IF v.spamPercentage > 0 THEN "suspicious"
                       ELSE "clean"

C8_Witness ==
  /\ HasAnalysis
  /\ outcome.value.snapshotsChecked = 4
  /\ outcome.value.spamSnapshots = 2
  /\ outcome.value.spamPercentage = 50 * 100
  /\ outcome.value.status = "spam"

ClientCalls == SelectSeq(trace, LAMBDA e : e.op \in {"getSnapshots", "getSnapshotHtml"})

FollowsInOrder(c, d) ==
  \/ d.op = "getSnapshots" /\ d.i > c.i
  \/ d.op = "getSnapshotHtml" /\ d.i = c.i
       /\ d.si = IF c.op = "getSnapshots" THEN 0 ELSE c.si + 1

(***************************************************************************)
(* C10: at most one Snapshot Client call is outstanding at any time; the   *)
(* domains are taken one at a time in input order, all fetches of a domain *)
(* are over before the next domain's list fetch starts, and the snapshots  *)
(* of a domain are fetched in the order the client returned them.          *)
(***************************************************************************)
C10_OneCallAtATime ==
  /\ Cardinality(outstanding) <= 1
  /\ Len(replies) = Len(ClientCalls) - Cardinality(outstanding)
  /\ \A k \in 1..(Len(ClientCalls) - 1) : FollowsInOrder(ClientCalls[k], ClientCalls[k + 1])
  /\ pc = "awaitGetSnapshotHtml" =>
       outstanding = {[op |-> "getSnapshotHtml", snapshot |-> snapshots[si + 1]]}
  /\ pc = "awaitGetSnapshots" =>
       outstanding = {[op |-> "getSnapshots", target |-> trim(domains[i + 1]),
                       limit |-> maxSnapshots]}
  /\ pc \notin {"awaitGetSnapshots", "awaitGetSnapshotHtml"} => outstanding = {}

C10_Witness ==
  /\ pc = "awaitGetSnapshotHtml"
  /\ i = 1 /\ si = 1
  /\ Len(results) = 1
  /\ Cardinality(outstanding) = 1

\* what a direct call gives when it is made without a callback and the client
\* answers it with `listReply` and `htmls`
OutcomeAlone(dom, listReply, htmls) ==
  IF listReply.ok THEN Returned(RecordAlone(dom, listReply, htmls))
  ELSE Thrown("Domain analysis failed: " \o listReply.val)

(***************************************************************************)
(* C11: the progress callback is a pure side channel.  Whatever callback   *)
(* is passed (none, a recording one, one that throws), a direct call asks  *)
(* the client for the listing and settles as it does without a callback on *)
(* the same client answers, and a batch returns, for each non-blank        *)
(* domain, the record that domain gets without a callback.                 *)
(***************************************************************************)
C11_CallbackIsSideChannel ==
  /\ pc = "settled" =>
       /\ Len(ListReplies(0)) = 1
       /\ outcome = OutcomeAlone(domain, ListReply, HtmlReplies(0))
  /\ pc # "rejected"
  /\ pc = "returned" =>
       /\ Len(returned) = Len(NonBlank(domains))
       /\ \A k \in 1..Len(returned) :
            /\ Len(ListReplies(NonBlank(domains)[k])) = 1
            /\ returned[k] = RecordAlone(trim(domains[NonBlank(domains)[k] + 1]),
                                         ListReplies(NonBlank(domains)[k])[1],
                                         HtmlReplies(NonBlank(domains)[k]))

\* checkStopWords has been called on its own and this is what came of it
Checked == scorerOut.op = "checkStopWords"

\* the stop words of a list, lowercased and trimmed
Normalized(list) == {trim(toLowerCase(list[k])) : k \in 1..Len(list)}

(***************************************************************************)
(* C12: for every text and stop-word list checkStopWords returns, without  *)
(* raising, a result whose found entries have pairwise distinct words,     *)
(* each with count >= 1, whose count is the size of found and at most the  *)
(* number of distinct normalized words of the list, and whose score lies   *)
(* in [0, 100].                                                            *)
(***************************************************************************)
C12_ScoreResultWellFormed ==
  Checked =>
    /\ ~scorerOut.result.raised
    /\ \A j, k \in 1..Len(scorerOut.result.found) :
         j # k => scorerOut.result.found[j].word # scorerOut.result.found[k].word
    /\ \A k \in 1..Len(scorerOut.result.found) : scorerOut.result.found[k].count >= 1
    /\ scorerOut.result.count = Len(scorerOut.result.found)
    /\ scorerOut.result.count <= Cardinality(Normalized(scorerList))
    /\ scorerOut.result.score >= 0
    /\ scorerOut.result.score <= 100 * 100

(***************************************************************************)
(* C13: with an empty stop-word list the scorer returns                    *)
(* {found: [], count: 0, score: 0} for every text, no fetched snapshot is  *)
(* flagged as spam, and a call whose listing has at least one snapshot     *)
(* returns status 'clean' with spamSnapshots 0.                            *)
(***************************************************************************)
C13_EmptyStopWordsClean ==
  (entry = "analyzeDomainForSpam" /\ stopWords = <<>>) =>
    /\ \A t \in Texts :
         /\ ~checkStopWords(t, stopWords).raised
         /\ checkStopWords(t, stopWords).found = <<>>
         /\ checkStopWords(t, stopWords).count = 0
         /\ checkStopWords(t, stopWords).score = 0
    /\ \A k \in 1..Len(HtmlReplies(0)) :
         HtmlReplies(0)[k].ok =>
           /\ ~analyzeHtmlForSpam(HtmlReplies(0)[k].val, stopWords).raised
           /\ ~analyzeHtmlForSpam(HtmlReplies(0)[k].val, stopWords).isSpam
    /\ spamSnapshots = 0
    /\ (pc = "settled" /\ ListSucceeded /\ ListReply.val # <<>>) =>
         /\ outcome.kind = "return"
         /\ outcome.value.status = "clean"
         /\ outcome.value.spamSnapshots = 0
         /\ ~outcome.value.spamDetected

C13_Witness ==
  /\ pc = "settled" /\ stopWords = <<>>
  /\ Len(snapshots) = 3
  /\ HtmlReplies(0)[1].ok /\ HtmlReplies(0)[1].val = SpamHtml
  /\ ~HtmlReplies(0)[2].ok
  /\ HtmlReplies(0)[3].ok /\ HtmlReplies(0)[3].val = BrokenHtml
  /\ outcome.kind = "return" /\ outcome.value.status = "clean"

(***************************************************************************)
(* C14: once started, a batch eventually returns its result sequence, one  *)
(* record per non-blank domain, provided every client call and every delay *)
(* eventually completes; no failure pattern of the client makes it loop    *)
(* forever or stop before the last domain.                                 *)
(***************************************************************************)
C14_BatchTerminates ==
  (entry = "analyzeDomainsForSpam")
    ~> (pc = "returned" /\ Len(returned) = Len(NonBlank(domains)))

C14_Witness ==
  /\ pc = "returned"
  /\ Len(NonBlank(domains)) = 2
  /\ ~ListReplies(0)[1].ok
  /\ Len(HtmlReplies(1)) = 2
  /\ ~HtmlReplies(1)[1].ok /\ ~HtmlReplies(1)[2].ok
  /\ Len(returned) = 2

\* the call has returned a DomainAnalysis
HasReturned == pc = "settled" /\ outcome.kind = "return"

\* the snapshots flagged spam, in iteration order, and what was found in them
Flagged == SelectSeq(HtmlReplies(0), FlaggedSpam)

FoundIn(r) == analyzeHtmlForSpam(r.val, stopWords).stopWords.found

RECURSIVE Discovered(_)
Discovered(flagged) ==
  IF flagged = <<>> THEN <<>> ELSE FoundIn(Head(flagged)) \o Discovered(Tail(flagged))

\* the sum of the counts of word w over the matches of a sequence
RECURSIVE CountOf(_, _)
CountOf(w, matches) ==
  IF matches = <<>> THEN 0
  ELSE (IF Head(matches).word = w THEN Head(matches).count ELSE 0) + CountOf(w, Tail(matches))

\* the place at which word w was first discovered
FirstPlace(w, matches) ==
  CHOOSE p \in 1..Len(matches) :
    matches[p].word = w /\ \A q \in 1..(p - 1) : matches[q].word # w

(***************************************************************************)
(* C15: in the returned DomainAnalysis spamSnapshots is the number of      *)
(* snapshots flagged spam, and stopWordsFound has one entry per word found *)
(* in a flagged snapshot, its count the sum of that word's counts over the *)
(* flagged snapshots, ordered by count descending with ties in discovery   *)
(* order.                                                                  *)
(***************************************************************************)
C15_StopWordsMerged ==
  HasReturned =>
    /\ "spamSnapshots" \in DOMAIN outcome.value
    /\ outcome.value.spamSnapshots = Len(Flagged)
    /\ {outcome.value.stopWordsFound[k].word : k \in 1..Len(outcome.value.stopWordsFound)}
         = {Discovered(Flagged)[k].word : k \in 1..Len(Discovered(Flagged))}
    /\ \A j, k \in 1..Len(outcome.value.stopWordsFound) :
         LET a == outcome.value.stopWordsFound[j]
             b == outcome.value.stopWordsFound[k]
         IN /\ a.count = CountOf(a.word, Discovered(Flagged))
            /\ j < k =>
                 /\ a.word # b.word
                 /\ a.count >= b.count
                 /\ a.count = b.count =>
                      FirstPlace(a.word, Discovered(Flagged))
                        < FirstPlace(b.word, Discovered(Flagged))

\* the timestamp of the earliest snapshot, in iteration order, flagged spam
EarliestSpamDate ==
  IF Flagged = <<>> THEN Null ELSE snapshots[Flagged[1].si + 1].timestamp

(***************************************************************************)
(* C16: firstSpamDate is the timestamp of the earliest snapshot in         *)
(* iteration order that was flagged spam, whatever timestamps the client   *)
(* returned; once set it is not overwritten by a later spam snapshot, and  *)
(* it is null when no snapshot was flagged.                                *)
(***************************************************************************)
C16_FirstSpamDateIsEarliest ==
  /\ entry = "analyzeDomainForSpam" => firstSpamDate = EarliestSpamDate
  /\ HasReturned => outcome.value.firstSpamDate = EarliestSpamDate

\* word w occurs in text t as a substring, letter case aside
OccursIn(w, t) ==
  \E p \in 1..(Len(t) - Len(w) + 1) :
    toLowerCase(SubSeq(t, p, p + Len(w) - 1)) = toLowerCase(w)

\* the place of the first stop word of the list that normalizes to w
FirstInList(w, list) ==
  CHOOSE p \in 1..Len(list) :
    trim(toLowerCase(list[p])) = w /\ \A q \in 1..(p - 1) : trim(toLowerCase(list[q])) # w

(***************************************************************************)
(* C17: checkStopWords records a stop word in found if and only if its     *)
(* normalized form (lowercased, trimmed) is non-empty and occurs in the    *)
(* text as a case-insensitive substring; a word that appears several times *)
(* in the list is recorded once, and found lists the words in the order of *)
(* their first appearance in the list.                                     *)
(***************************************************************************)
C17_FoundIffSubstring ==
  Checked =>
    /\ ~scorerOut.result.raised
    /\ {scorerOut.result.found[k].word : k \in 1..Len(scorerOut.result.found)}
         = {w \in Normalized(scorerList) : w # <<>> /\ OccursIn(w, scorerText)}
    /\ \A j, k \in 1..Len(scorerOut.result.found) :
         j < k =>
           /\ scorerOut.result.found[j].word # scorerOut.result.found[k].word
           /\ FirstInList(scorerOut.result.found[j].word, scorerList)
                < FirstInList(scorerOut.result.found[k].word, scorerList)

HtmlScored == scorerOut.op = "analyzeHtmlForSpam" /\ ~scorerOut.result.raised

(***************************************************************************)
(* C18: in a result of analyzeHtmlForSpam, isSpam is true exactly when at  *)
(* least one stop word was found; with found empty the score is 0, so the  *)
(* test score > 5 never decides the outcome.                               *)
(***************************************************************************)
C18_IsSpamIffFound ==
  HtmlScored =>
    /\ scorerOut.result.isSpam = (scorerOut.result.stopWords.found # <<>>)
    /\ scorerOut.result.stopWords.found = <<>> =>
         /\ scorerOut.result.stopWords.score = 0
         /\ ~(scorerOut.result.stopWords.score > SpamScoreThreshold * 100)

\* a document with text is scored against a non-empty list, none of whose
\* words it holds, and is not flagged
C18_Witness ==
  /\ HtmlScored
  /\ scorerText # <<>>
  /\ \E k \in 1..Len(scorerList) : trim(toLowerCase(scorerList[k])) # <<>>
  /\ scorerOut.result.stopWords.found = <<>>
  /\ ~scorerOut.result.isSpam

(***************************************************************************)
(* C19: every DomainAnalysis returned by analyzeDomainForSpam is           *)
(* consistent: spamDetected holds iff spamSnapshots > 0, iff the status is *)
(* 'suspicious' or 'spam', iff firstSpamDate is not null; spamSnapshots    *)
(* lies in 0..snapshotsChecked, totalStopWordsFound is the length of       *)
(* stopWordsFound, and the status is never 'error'.                        *)
(***************************************************************************)
C19_AnalysisConsistent ==
  HasReturned =>
    /\ "spamSnapshots" \in DOMAIN outcome.value
    /\ outcome.value.spamDetected = (outcome.value.spamSnapshots > 0)
    /\ outcome.value.spamDetected = (outcome.value.status \in {"suspicious", "spam"})
    /\ outcome.value.spamDetected = (outcome.value.firstSpamDate # Null)
    /\ 0 <= outcome.value.spamSnapshots
    /\ outcome.value.spamSnapshots <= outcome.value.snapshotsChecked
    /\ outcome.value.totalStopWordsFound = Len(outcome.value.stopWordsFound)
    /\ outcome.value.status # "error"

====
